---- MODULE Spec2Model ----
(***************************************************************************)
(* Model of gfapi/fd.go: the glusterfs file-descriptor layer (type Fd),    *)
(* the Stat record and its conversion ToGlfsStat, and direntName.          *)
(*                                                                         *)
(* A cgo call "ret, err := C.f(...)" yields err == nil exactly when errno  *)
(* is 0 after the call.  An error value is modelled by its errno, 0 being  *)
(* the nil error.  A primitive that fails returns a negative code (or a    *)
(* null entry) with errno set; a primitive that succeeds may still leave   *)
(* errno set by something it did internally (a stale value).               *)
(***************************************************************************)
EXTENDS Integers, Sequences, FiniteSets, TLC

VARIABLES
    entries,    \* names the backing directory enumeration produces, in order
    cursor,     \* server-side enumeration cursor: entries already handed out
    pc,         \* "idle", or "loop" inside the for loop of Readdir/Readdirnames
    cur,        \* locals of the running Readdir/Readdirnames call
    last,       \* what the last completed Fd call did and returned
    returned,   \* names of the entries the directory calls returned, in order
    allOk,      \* every directory call so far returned a nil error
    dirent,     \* direntName: its argument
    dec,        \* direntName(dirent): loop index, name so far, loop left
    twin,       \* a second argument, equal to dirent in the bytes that count
    tdec,       \* direntName(twin): loop index, name so far, loop left
    stat,       \* ToGlfsStat: its receiver (a *Stat)
    native,     \* ToGlfsStat: its result (a *C.struct_glfs_stat)
    converted   \* ToGlfsStat has run

vars == <<entries, cursor, pc, cur, last, returned, allOk,
          dirent, dec, twin, tdec, stat, native, converted>>

(***************************************************************************)
(* Bounds of the model.                                                    *)
(***************************************************************************)
MaxEntries == 3     \* longest backing enumeration
MaxN == 2           \* largest n passed to Readdir/Readdirnames
MaxBuf == 2         \* longest buffer passed to Read/Write/Pread/Pwrite/xattr
ExtraLen == 1       \* how far a native name buffer may exceed NameLen

(***************************************************************************)
(* Program constants.                                                      *)
(***************************************************************************)
NameLen == 256      \* len(dirent.Name) of syscall.Dirent
MaxIdx == 255       \* last index direntName copies

\* errno values a primitive may leave: 0 (none), ENOENT, EIO
Errnos == {0, 2, 5}

Min(a, b) == IF a < b THEN a ELSE b

\* byte(c) for c an int8
ToByte(c) == c % 256

ToBytes(s) == [i \in 1..Len(s) |-> ToByte(s[i])]

(***************************************************************************)
(* direntName (fd.go 270-281).                                             *)
(***************************************************************************)
\* name := make([]byte, 0, len(dirent.Name)); the range loop starts at 0
direntStart == [i |-> 0, name |-> <<>>, done |-> FALSE]

direntIterOff(Name, r) ==
    IF r.i >= Len(Name) THEN [r EXCEPT !.done = TRUE]
    ELSE IF Name[r.i + 1] = 0 \/ r.i > MaxIdx + 1 THEN [r EXCEPT !.done = TRUE]
    ELSE [i |-> r.i + 1, name |-> Append(r.name, ToByte(Name[r.i + 1])),
          done |-> FALSE]

\* one iteration of: for i, c := range dirent.Name {
\*     if c == 0 || i > 255 { break }; name = append(name, byte(c)) }
direntIter(Name, r) ==
    IF r.i >= Len(Name) THEN [r EXCEPT !.done = TRUE]
    ELSE IF Name[r.i + 1] = 0 \/ r.i > MaxIdx THEN [r EXCEPT !.done = TRUE]
    ELSE [i |-> r.i + 1, name |-> Append(r.name, ToByte(Name[r.i + 1])),
          done |-> FALSE]

RECURSIVE direntLoop(_, _)
direntLoop(Name, r) == IF r.done THEN r.name ELSE direntLoop(Name, direntIter(Name, r))

\* the whole call, for the short names of the directory model
direntName(d) == direntLoop(d.Name, direntStart)

(***************************************************************************)
(* Primitive calls and what an Fd method hands back.                       *)
(***************************************************************************)
\* (ret, errno) pairs a primitive may produce: a negative code sets errno
Outcomes(rets) == {o \in [ret : rets, errno : Errnos] : o.ret < 0 => o.errno # 0}

Call(prim, ptr, size) == [prim |-> prim, ptr |-> ptr, size |-> size]

Ret(op, blen, o, val, err, calls) ==
    [op |-> op, blen |-> blen, ret |-> o.ret, errno |-> o.errno,
     val |-> val, err |-> err, calls |-> calls, panic |-> FALSE]

\* &b[0] on an empty slice: index out of range, no primitive is called
Panic(op, blen) ==
    [op |-> op, blen |-> blen, ret |-> 0, errno |-> 0,
     val |-> 0, err |-> 0, calls |-> <<>>, panic |-> TRUE]

\* _, err := C.glfs_fchmod(...); return err
Fchmod(o) == Ret("Fchmod", 0, o, 0, o.errno, <<Call("glfs_fchmod", "none", 0)>>)

\* if int(ret) < 0 { return err }; return nil
Fstat(o) ==
    Ret("Fstat", 0, o, 0, IF o.ret < 0 THEN o.errno ELSE 0,
        <<Call("glfs_fstat", "stat", 0)>>)

\* if ret < 0 { return err }; return nil
Fsync(o) ==
    Ret("Fsync", 0, o, 0, IF o.ret < 0 THEN o.errno ELSE 0,
        <<Call("glfs_fsync", "none", 0)>>)

\* _, err := C.glfs_ftruncate(...); return err
Ftruncate(o) == Ret("Ftruncate", 0, o, 0, o.errno, <<Call("glfs_ftruncate", "none", 0)>>)

\* n, err := C.glfs_pread(fd, &b[0], len(b), ...); return int(n), err
Pread(blen, o) ==
    IF blen = 0 THEN Panic("Pread", blen)
    ELSE Ret("Pread", blen, o, o.ret, o.errno, <<Call("glfs_pread", "b0", blen)>>)

\* n, err := C.glfs_pwrite(fd, &b[0], len(b), ...); return int(n), err
Pwrite(blen, o) ==
    IF blen = 0 THEN Panic("Pwrite", blen)
    ELSE Ret("Pwrite", blen, o, o.ret, o.errno, <<Call("glfs_pwrite", "b0", blen)>>)

\* p0 of Read and Write: &b[0], or &_zero for an empty buffer
BufPtr(blen) == IF blen > 0 THEN "b0" ELSE "_zero"

ReadStaleErr(blen, o) ==
    Ret("Read", blen, o, o.ret, o.errno, <<Call("glfs_read", BufPtr(blen), blen)>>)

\* ret, e1 := C.glfs_read(fd, p0, len(b), 0); n = int(ret); if n < 0 { err = e1 }
Read(blen, o) ==
    Ret("Read", blen, o, o.ret, IF o.ret < 0 THEN o.errno ELSE 0,
        <<Call("glfs_read", BufPtr(blen), blen)>>)

WriteShortCircuit(blen, o) ==
    Ret("Write", blen, o, o.ret, IF o.ret < 0 THEN o.errno ELSE 0,
        IF blen = 0 THEN <<>> ELSE <<Call("glfs_write", BufPtr(blen), blen)>>)

\* ret, e1 := C.glfs_write(fd, p0, len(b), 0); n = int(ret); if n < 0 { err = e1 }
Write(blen, o) ==
    Ret("Write", blen, o, o.ret, IF o.ret < 0 THEN o.errno ELSE 0,
        <<Call("glfs_write", BufPtr(blen), blen)>>)

\* ret, err := C.glfs_lseek(...); return int64(ret), err
lseek(o) == Ret("lseek", 0, o, o.ret, o.errno, <<Call("glfs_lseek", "none", 0)>>)

FallocateKeepErr(o) ==
    Ret("Fallocate", 0, o, 0, o.errno, <<Call("glfs_fallocate", "none", 0)>>)

\* if ret == 0 { err = nil }; return err
Fallocate(o) ==
    Ret("Fallocate", 0, o, 0, IF o.ret = 0 THEN 0 ELSE o.errno,
        <<Call("glfs_fallocate", "none", 0)>>)

\* unsafe.Pointer(&data[0]) first; then if ret == 0 { err = nil }; return err
Fsetxattr(blen, o) ==
    IF blen = 0 THEN Panic("Fsetxattr", blen)
    ELSE Ret("Fsetxattr", blen, o, 0, IF o.ret = 0 THEN 0 ELSE o.errno,
             <<Call("glfs_fsetxattr", "data0", blen)>>)

\* if ret == 0 { err = nil }; return err
Fremovexattr(o) ==
    Ret("Fremovexattr", 0, o, 0, IF o.ret = 0 THEN 0 ELSE o.errno,
        <<Call("glfs_fremovexattr", "none", 0)>>)

(***************************************************************************)
(* Fgetxattr (fd.go 221-240) against the attribute the name denotes.       *)
(* w.attrLen is the attribute's byte length, -1 when it does not exist;    *)
(* w.failed says the primitive fails for a reason of its own; w.errno is   *)
(* what it leaves in errno (the failure's errno, or a stale value).        *)
(***************************************************************************)
XattrWorlds ==
    {w \in [attrLen : -1..(MaxBuf + 1), failed : BOOLEAN, errno : Errnos] :
        w.failed => w.errno # 0}

\* glfs_fgetxattr(fd, name, value, size): size 0 asks for the length
glfs_fgetxattr(w, size) ==
    IF w.failed THEN [ret |-> -1, errno |-> w.errno]
    ELSE IF w.attrLen < 0 THEN [ret |-> -1, errno |-> 61]
    ELSE IF size = 0 THEN [ret |-> w.attrLen, errno |-> w.errno]
    ELSE IF size < w.attrLen THEN [ret |-> -1, errno |-> 34]
    ELSE [ret |-> w.attrLen, errno |-> w.errno]

\* the call Fgetxattr issues: (nil, 0) for an empty dest, else (&dest[0], len(dest))
FgetxattrCall(dlen) ==
    IF dlen <= 0 THEN Call("glfs_fgetxattr", "nil", 0)
    ELSE Call("glfs_fgetxattr", "dest0", dlen)

FgetxattrKeepErr(dlen, w) ==
    LET c == FgetxattrCall(dlen)
        o == glfs_fgetxattr(w, c.size)
    IN  [op |-> "Fgetxattr", blen |-> dlen, ret |-> o.ret, errno |-> o.errno,
         val |-> o.ret, err |-> o.errno,
         calls |-> <<c>>, panic |-> FALSE, attrLen |-> w.attrLen, failed |-> w.failed]

\* if ret >= 0 { return int64(ret), nil } else { return int64(ret), err }
Fgetxattr(dlen, w) ==
    LET c == FgetxattrCall(dlen)
        o == glfs_fgetxattr(w, c.size)
    IN  [op |-> "Fgetxattr", blen |-> dlen, ret |-> o.ret, errno |-> o.errno,
         val |-> o.ret, err |-> IF o.ret >= 0 THEN 0 ELSE o.errno,
         calls |-> <<c>>, panic |-> FALSE, attrLen |-> w.attrLen, failed |-> w.failed]

(***************************************************************************)
(* Directory enumeration (fd.go 288-336).                                  *)
(***************************************************************************)
\* name of the j-th entry of a directory, as int8 values without a null
EntryName(j) ==
    IF j % 2 = 1 THEN <<102, 48 + (j % 10)>> ELSE <<-61, -87, 97 + (j % 26)>>

Directory(k) == [j \in 1..k |-> EntryName(j)]

\* the [256]int8 Name field holding nm, null padded
NameBuf(nm) == [i \in 1..NameLen |-> IF i <= Len(nm) THEN nm[i] ELSE 0]

NullDirent == [null |-> TRUE]

\* what one glfs_readdir / glfs_readdirplus call may do with the cursor at c:
\* fail (null entry, errno set, cursor kept), or hand out the next entry, or
\* a null entry once the enumeration is over; a call that does not fail may
\* still leave errno set
glfs_readdir(ents, c) ==
    {[d |-> NullDirent, errno |-> e, failed |-> TRUE, cursor |-> c] :
        e \in Errnos \ {0}}
    \cup
    {[d |-> IF c < Len(ents)
              THEN [null |-> FALSE, Name |-> NameBuf(ents[c + 1]), ino |-> c + 1]
              ELSE NullDirent,
      errno |-> e, failed |-> FALSE, cursor |-> Min(c + 1, Len(ents))] :
        e \in Errnos}

\* file := fileInfoFromStat(&stat, name)
fileInfoFromStat(st, nm) == [name |-> nm, ino |-> st.ino]

\* the element a call appends for entry d
Element(op, d) ==
    IF op = "Readdir" THEN fileInfoFromStat([ino |-> d.ino], direntName(d))
    ELSE direntName(d)

LoopCondNoZero(n, i) == i < n

LoopCondOff(n, i) == n = 0 \/ i <= n

\* for i := 0; n == 0 || i < n; i++
LoopCond(n, i) == n = 0 \/ i < n

IdleCur == [op |-> "none", n |-> 0, i |-> 0, files |-> <<>>, fetches |-> 0,
            start |-> 0, clean |-> TRUE]

DirRet(c, files, err, endNull, failed, clean) ==
    [op |-> c.op, n |-> c.n, files |-> files, err |-> err, acc |-> c.files,
     fetches |-> c.fetches, start |-> c.start, clean |-> clean,
     endNull |-> endNull, failed |-> failed, panic |-> FALSE]

DirOps == {"Readdir", "Readdirnames"}

\* no call has completed since the running one began
Running == [op |-> "running", err |-> 0, panic |-> FALSE]

\* state of the two pure functions, which no Fd method touches
pure == <<dirent, dec, twin, tdec, stat, native, converted>>

\* the names in the list a call returned
NamesOf(r) ==
    IF r.op = "Readdir" THEN [i \in 1..Len(r.files) |-> r.files[i].name]
    ELSE r.files

\* a call returns: last and the history are updated, the loop is left
Return(r) ==
    /\ last' = r
    /\ returned' = returned \o NamesOf(r)
    /\ allOk' = (allOk /\ r.err = 0)
    /\ pc' = "idle"
    /\ cur' = IdleCur
    /\ UNCHANGED pure

\* locals of a call as it enters its loop: var files (nil); i := 0
NewCall(op, n) ==
    [op |-> op, n |-> n, i |-> 0, files |-> <<>>, fetches |-> 0,
     start |-> cursor, clean |-> TRUE]

ReaddirBegin ==
    /\ pc = "idle"
    /\ \E n \in 0..MaxN : cur' = NewCall("Readdir", n)
    /\ pc' = "loop"
    /\ last' = Running
    /\ UNCHANGED <<entries, cursor, returned, allOk>>
    /\ UNCHANGED pure

ReaddirnamesBegin ==
    /\ pc = "idle"
    /\ \E n \in 0..MaxN : cur' = NewCall("Readdirnames", n)
    /\ pc' = "loop"
    /\ last' = Running
    /\ UNCHANGED <<entries, cursor, returned, allOk>>
    /\ UNCHANGED pure

\* the loop condition is false: return files, nil
DirLoopExit ==
    /\ pc = "loop"
    /\ ~LoopCond(cur.n, cur.i)
    /\ Return(DirRet(cur, cur.files, 0, FALSE, FALSE, cur.clean))
    /\ UNCHANGED <<entries, cursor>>

\* one iteration: fetch; if err != nil return nil, err; if dirent == nil break;
\* else append and i++
DirLoopBody ==
    /\ pc = "loop"
    /\ LoopCond(cur.n, cur.i)
    /\ \E f \in glfs_readdir(entries, cursor) :
        LET c == [cur EXCEPT !.fetches = @ + 1]
            clean == cur.clean /\ f.errno = 0
        IN  /\ cursor' = f.cursor
            /\ IF f.errno # 0
                 THEN Return(DirRet(c, <<>>, f.errno, f.d.null /\ ~f.failed,
                                    f.failed, clean))
               ELSE IF f.d.null
                 THEN Return(DirRet(c, c.files, 0, TRUE, FALSE, clean))
               ELSE /\ cur' = [c EXCEPT !.files = Append(@, Element(c.op, f.d)),
                                        !.i = @ + 1, !.clean = clean]
                    /\ UNCHANGED <<pc, last, returned, allOk>>
                    /\ UNCHANGED pure
    /\ UNCHANGED entries

(***************************************************************************)
(* The other Fd methods: one synchronous call each.                        *)
(***************************************************************************)
\* what a call other than a directory call leaves alone
kept == <<entries, cursor, pc, cur, returned, allOk>>

\* codes of a primitive that answers 0 or -1
Status == {-1, 0}

\* codes of a primitive that answers a byte count up to blen, or -1
Count(blen) == -1..blen

DoFchmod ==
    /\ pc = "idle"
    /\ \E o \in Outcomes(Status) : last' = Fchmod(o)
    /\ UNCHANGED kept
    /\ UNCHANGED pure

DoFstat ==
    /\ pc = "idle"
    /\ \E o \in Outcomes(Status) : last' = Fstat(o)
    /\ UNCHANGED kept
    /\ UNCHANGED pure

DoFsync ==
    /\ pc = "idle"
    /\ \E o \in Outcomes(Status) : last' = Fsync(o)
    /\ UNCHANGED kept
    /\ UNCHANGED pure

DoFtruncate ==
    /\ pc = "idle"
    /\ \E o \in Outcomes(Status) : last' = Ftruncate(o)
    /\ UNCHANGED kept
    /\ UNCHANGED pure

DoPread ==
    /\ pc = "idle"
    /\ \E blen \in 0..MaxBuf : \E o \in Outcomes(Count(blen)) : last' = Pread(blen, o)
    /\ UNCHANGED kept
    /\ UNCHANGED pure

DoPwrite ==
    /\ pc = "idle"
    /\ \E blen \in 0..MaxBuf : \E o \in Outcomes(Count(blen)) : last' = Pwrite(blen, o)
    /\ UNCHANGED kept
    /\ UNCHANGED pure

DoRead ==
    /\ pc = "idle"
    /\ \E blen \in 0..MaxBuf : \E o \in Outcomes(Count(blen)) : last' = Read(blen, o)
    /\ UNCHANGED kept
    /\ UNCHANGED pure

DoWrite ==
    /\ pc = "idle"
    /\ \E blen \in 0..MaxBuf : \E o \in Outcomes(Count(blen)) : last' = Write(blen, o)
    /\ UNCHANGED kept
    /\ UNCHANGED pure

DoLseek ==
    /\ pc = "idle"
    /\ \E o \in Outcomes(-1..MaxBuf) : last' = lseek(o)
    /\ UNCHANGED kept
    /\ UNCHANGED pure

DoFallocate ==
    /\ pc = "idle"
    /\ \E o \in Outcomes(Status) : last' = Fallocate(o)
    /\ UNCHANGED kept
    /\ UNCHANGED pure

DoFgetxattr ==
    /\ pc = "idle"
    /\ \E dlen \in 0..MaxBuf : \E w \in XattrWorlds : last' = Fgetxattr(dlen, w)
    /\ UNCHANGED kept
    /\ UNCHANGED pure

DoFsetxattr ==
    /\ pc = "idle"
    /\ \E blen \in 0..MaxBuf : \E o \in Outcomes(Status) : last' = Fsetxattr(blen, o)
    /\ UNCHANGED kept
    /\ UNCHANGED pure

DoFremovexattr ==
    /\ pc = "idle"
    /\ \E o \in Outcomes(Status) : last' = Fremovexattr(o)
    /\ UNCHANGED kept
    /\ UNCHANGED pure

(***************************************************************************)
(* Specification of one open Fd.                                           *)
(***************************************************************************)
NoCall == [op |-> "none", blen |-> 0, ret |-> 0, errno |-> 0, val |-> 0,
           err |-> 0, calls |-> <<>>, panic |-> FALSE]

NilStat == [isNil |-> TRUE]

NameIdle ==
    /\ dirent = [Name |-> <<>>]
    /\ twin = [Name |-> <<>>]
    /\ dec = direntStart
    /\ tdec = direntStart

StatIdle ==
    /\ stat = NilStat
    /\ native = NilStat
    /\ converted = FALSE

FdIdle ==
    /\ cursor = 0
    /\ pc = "idle"
    /\ cur = IdleCur
    /\ last = NoCall
    /\ returned = <<>>
    /\ allOk = TRUE

Init ==
    /\ entries \in {Directory(k) : k \in 0..MaxEntries}
    /\ FdIdle
    /\ NameIdle
    /\ StatIdle

Next ==
    \/ DoFchmod
    \/ DoFstat
    \/ DoFsync
    \/ DoFtruncate
    \/ DoPread
    \/ DoPwrite
    \/ DoRead
    \/ DoWrite
    \/ DoLseek
    \/ DoFallocate
    \/ DoFgetxattr
    \/ DoFsetxattr
    \/ DoFremovexattr

Spec == Init /\ [][Next]_vars

(***************************************************************************)
(* Specification of directory enumeration through one open Fd.  The calls  *)
(* are synchronous: one that has entered its loop runs on until it returns.*)
(***************************************************************************)
DirNext ==
    \/ ReaddirBegin
    \/ ReaddirnamesBegin
    \/ DirLoopExit
    \/ DirLoopBody

DirSpec == Init /\ [][DirNext]_vars /\ WF_vars(DirLoopExit) /\ WF_vars(DirLoopBody)

(***************************************************************************)
(* direntName as a function of its argument.  syscall.Dirent.Name is a     *)
(* fixed array of int8, of NameLen elements or more depending on the       *)
(* platform.                                                               *)
(***************************************************************************)
\* a non-null int8 that varies with the index
Fill(base, i) == base + (i % 3)

NameBuffer(len, nullAt, base, tail) ==
    [i \in 1..len |->
        IF i = nullAt THEN 0
        ELSE IF nullAt = 0 \/ i < nullAt THEN Fill(base, i)
        ELSE tail]

\* 1-based places of the first null; 0: the buffer holds none
NullPlaces(len) == {0, 1, 2, 100, MaxIdx, NameLen, NameLen + 1} \cap 0..len

\* places of the first null that leave the bytes that count as nullAt does
TwinPlaces(len, nullAt) ==
    IF nullAt = 0 \/ nullAt > NameLen
      THEN {0, NameLen + 1, NameLen + 2} \cap 0..len
      ELSE {nullAt}

\* dirent is any buffer of the family; twin differs from it at most after
\* its first null and beyond index 255
InitName ==
    /\ \E len \in NameLen..(NameLen + ExtraLen) :
       \E nullAt \in NullPlaces(len) :
       \E base \in {65, -3} :
       \E tail \in {0, 66} :
          /\ dirent = [Name |-> NameBuffer(len, nullAt, base, tail)]
          /\ \E len2 \in NameLen..(NameLen + ExtraLen) :
             \E nullAt2 \in TwinPlaces(len2, nullAt) :
                twin = [Name |-> NameBuffer(len2, nullAt2, base, 66 - tail)]
    /\ dec = direntStart
    /\ tdec = direntStart
    /\ entries = <<>>
    /\ FdIdle
    /\ StatIdle

\* direntName(dirent) and direntName(twin), an iteration of each at a time
Decode ==
    /\ ~(dec.done /\ tdec.done)
    /\ dec' = IF dec.done THEN dec ELSE direntIter(dirent.Name, dec)
    /\ tdec' = IF tdec.done THEN tdec ELSE direntIter(twin.Name, tdec)
    /\ UNCHANGED <<dirent, twin, stat, native, converted>>
    /\ UNCHANGED <<entries, cursor, pc, cur, last, returned, allOk>>

NameSpec == InitName /\ [][Decode]_vars

(***************************************************************************)
(* Stat and ToGlfsStat (fd.go 22-94).  A time.Time is held as the seconds  *)
(* since the epoch and the nanoseconds within the second.                  *)
(***************************************************************************)
\* t.Unix()
Unix(t) == t.sec

\* t.Nanosecond()
Nanosecond(t) == t.nsec

Times == {[sec |-> 0, nsec |-> 0],
          [sec |-> 1700000000, nsec |-> 123456789],
          [sec |-> -1, nsec |-> 999999999]}

\* the Stat values the model converts
Stats ==
    {[isNil |-> FALSE, mask |-> 4095, attributes |-> 0, attributesMask |-> 0,
      atime |-> a, btime |-> b, ctime |-> c, mtime |-> m,
      ino |-> 7, size |-> sz, blocks |-> 8, rdevMajor |-> 0, rdevMinor |-> 0,
      devMajor |-> 8, devMinor |-> 1, blkksize |-> 4096, nlink |-> 1,
      uid |-> 1000, gid |-> 1000, mode |-> 420] :
        a \in Times, b \in Times, c \in Times, m \in Times, sz \in {0, 5}}

timespec(t) == [tv_sec |-> Unix(t), tv_nsec |-> Nanosecond(t)]

\* a field the composite literal does not name keeps its zero value
ZeroTimespec == [tv_sec |-> 0, tv_nsec |-> 0]

ToGlfsStat(s) ==
    IF s.isNil THEN NilStat
    ELSE [isNil |-> FALSE,
          glfs_st_mask |-> s.mask,
          glfs_st_attributes |-> s.attributes,
          glfs_st_attributes_mask |-> s.attributesMask,
          glfs_st_atime |-> timespec(s.atime),
          glfs_st_btime |-> timespec(s.btime),
          glfs_st_ctime |-> timespec(s.ctime),
          glfs_st_mtime |-> ZeroTimespec,
          glfs_st_ino |-> s.ino,
          glfs_st_size |-> s.size,
          glfs_st_blocks |-> s.blocks,
          glfs_st_rdev_major |-> s.rdevMajor,
          glfs_st_rdev_minor |-> s.rdevMinor,
          glfs_st_dev_major |-> s.devMajor,
          glfs_st_dev_minor |-> s.devMinor,
          glfs_st_blksize |-> 0,
          glfs_st_nlink |-> s.nlink,
          glfs_st_uid |-> s.uid,
          glfs_st_gid |-> s.gid,
          glfs_st_mode |-> s.mode]

InitStat ==
    /\ stat \in Stats \cup {NilStat}
    /\ native = NilStat
    /\ converted = FALSE
    /\ entries = <<>>
    /\ FdIdle
    /\ NameIdle

Convert ==
    /\ ~converted
    /\ native' = ToGlfsStat(stat)
    /\ converted' = TRUE
    /\ UNCHANGED <<stat, dirent, dec, twin, tdec>>
    /\ UNCHANGED <<entries, cursor, pc, cur, last, returned, allOk>>

StatSpec == InitStat /\ [][Convert]_vars

(***************************************************************************)
(* Properties of directory enumeration, checked under DirSpec.             *)
(***************************************************************************)
\* what a call of kind op returns for entries from+1 .. to of the directory
Expected(op, from, to) ==
    [i \in 1..(to - from) |->
        IF op = "Readdir"
          THEN [name |-> ToBytes(entries[from + i]), ino |-> from + i]
          ELSE ToBytes(entries[from + i])]

\* C1: Readdir(0) and Readdirnames(0), none of whose fetches reports an
\* error, return exactly the entries the enumeration still holds, in order,
\* after one fetch per entry and the one fetch that returns the null entry;
\* and a call with n = 0 that has entered its loop returns.
C1_ReaddirAll ==
    /\ [](pc = "idle" /\ last.op \in DirOps /\ last.n = 0 /\ last.clean
            => /\ last.err = 0
               /\ last.files = Expected(last.op, last.start, Len(entries))
               /\ last.fetches = Len(entries) - last.start + 1
               /\ last.endNull)
    /\ ((pc = "loop" /\ cur.n = 0) ~> (pc = "idle"))

C1_Witness ==
    /\ pc = "idle"
    /\ last.op = "Readdir"
    /\ last.n = 0
    /\ last.clean
    /\ last.start = 0
    /\ Len(last.files) >= 2
    /\ Len(last.files) = Len(entries)

\* C2: a call with n > 0 returns at most n entries and makes at most n
\* fetches; while every call so far returned a nil error, the names returned
\* so far are exactly the first entries of the enumeration, up to the
\* server-side cursor: none skipped, none twice.
C2_ReaddirResume ==
    /\ (pc = "idle" /\ last.op \in DirOps /\ last.n > 0
            => Len(last.files) <= last.n /\ last.fetches <= last.n)
    /\ (pc = "idle" /\ allOk
            => returned = [i \in 1..cursor |-> ToBytes(entries[i])])

C2_Witness ==
    /\ pc = "idle"
    /\ allOk
    /\ last.op \in DirOps
    /\ last.n > 0
    /\ last.err = 0
    /\ last.start > 0
    /\ Len(last.files) = last.n
    /\ Len(returned) > Len(last.files)
    /\ cursor < Len(entries)

\* C3: a call that ends on a fetch returning the null entry without failing
\* returns a nil error and the entries accumulated, whatever the last-error
\* channel holds; a call that ends on a failing fetch returns a non-nil error
\* and a nil list.
C3_ExhaustionVsFailure ==
    pc = "idle" /\ last.op \in DirOps
        => /\ last.endNull => last.err = 0 /\ last.files = last.acc
           /\ last.failed => last.err # 0 /\ last.files = <<>>

(***************************************************************************)
(* Properties of the other Fd methods, checked under Spec.                 *)
(***************************************************************************)
\* C4: Fallocate, Fsetxattr and Fremovexattr return nil when the primitive
\* returns 0, whatever the last-error channel holds, and the error captured
\* at the call when it returns anything else.
C4_ZeroNormalized ==
    last.op \in {"Fallocate", "Fsetxattr", "Fremovexattr"} /\ ~last.panic
        => /\ Len(last.calls) = 1
           /\ last.ret = 0 => last.err = 0
           /\ last.ret # 0 => last.err = last.errno

C4_Witness ==
    /\ last.op = "Fallocate"
    /\ last.ret = 0
    /\ last.errno # 0
    /\ last.err = 0

\* C5: Read and Write issue exactly one primitive call, of length len(b),
\* for every buffer length; an empty buffer is passed as the placeholder
\* address.
C5_OneCall ==
    last.op \in {"Read", "Write"}
        => /\ Len(last.calls) = 1
           /\ last.calls[1].prim = (IF last.op = "Read" THEN "glfs_read" ELSE "glfs_write")
           /\ last.calls[1].size = last.blen
           /\ last.blen = 0 => last.calls[1].ptr = "_zero"
           /\ last.blen > 0 => last.calls[1].ptr = "b0"

C5_Witness ==
    /\ last.op = "Write"
    /\ last.blen = 0
    /\ Len(last.calls) = 1
    /\ last.calls[1].size = 0

\* C6: Read and Write return the primitive's code unchanged, with the error
\* captured at the call when the code is negative and a nil error otherwise,
\* whatever the last-error channel holds.
C6_ReadWriteResult ==
    last.op \in {"Read", "Write"}
        => /\ last.val = last.ret
           /\ last.ret < 0 => last.err = last.errno /\ last.err # 0
           /\ last.ret >= 0 => last.err = 0

C6_Witness ==
    /\ last.op = "Read"
    /\ last.ret = 0
    /\ last.errno # 0
    /\ last.val = 0
    /\ last.err = 0

\* C7: Fgetxattr with an empty destination calls the primitive with a null
\* target and length 0 and, the attribute existing and the primitive not
\* failing, returns the attribute's length and nil; in general it returns
\* (ret, nil) for ret >= 0 and (ret, the captured error) for ret < 0.
C7_Fgetxattr ==
    last.op = "Fgetxattr"
        => /\ Len(last.calls) = 1
           /\ last.blen = 0 => last.calls[1].ptr = "nil" /\ last.calls[1].size = 0
           /\ last.blen = 0 /\ last.attrLen >= 0 /\ ~last.failed
                => last.val = last.attrLen /\ last.err = 0
           /\ last.val = last.ret
           /\ last.ret >= 0 => last.err = 0
           /\ last.ret < 0 => last.err = last.errno /\ last.err # 0

C7_Witness ==
    /\ last.op = "Fgetxattr"
    /\ last.blen = 0
    /\ last.attrLen = MaxBuf + 1
    /\ last.errno # 0
    /\ last.val = MaxBuf + 1
    /\ last.err = 0

\* C10: Fchmod, Fstat, Fsync, Ftruncate, Pread, Pwrite, lseek, Read and
\* Write return a non-nil error only when the primitive's code is negative.
C10_ErrorOnlyOnNegative ==
    /\ last.op \in {"Fchmod", "Fstat", "Fsync", "Ftruncate", "Pread", "Pwrite",
                    "lseek", "Read", "Write"}
    /\ ~last.panic
    /\ last.ret >= 0
    => last.err = 0

(***************************************************************************)
(* Property of direntName, checked under NameSpec.                         *)
(***************************************************************************)
\* 1-based places of the null bytes among the first 256 bytes of a buffer
NullsIn(Name) == {i \in 1..Min(Len(Name), 256) : Name[i] = 0}

\* number of bytes before the first null, or 256 (the whole buffer if shorter)
PrefixLen(Name) ==
    IF NullsIn(Name) = {} THEN Min(Len(Name), 256)
    ELSE (CHOOSE i \in NullsIn(Name) : \A j \in NullsIn(Name) : i <= j) - 1

\* C8: direntName returns exactly the bytes before the first null byte, or
\* the first 256 bytes when none of them is null; the result holds no null
\* byte and at most 256 bytes; two buffers that differ only after the first
\* null or beyond index 255 give the same result.
C8_DirentName ==
    /\ dec.done
        => /\ dec.name = ToBytes(SubSeq(dirent.Name, 1, PrefixLen(dirent.Name)))
           /\ \A i \in 1..Len(dec.name) : dec.name[i] # 0
           /\ Len(dec.name) <= 256
    /\ dec.done /\ tdec.done => dec.name = tdec.name

C8_Witness ==
    /\ dec.done
    /\ tdec.done
    /\ Len(dirent.Name) > 256
    /\ NullsIn(dirent.Name) = {}
    /\ Len(dec.name) = 256
    /\ twin.Name # dirent.Name

(***************************************************************************)
(* Property of ToGlfsStat, checked under StatSpec.                         *)
(***************************************************************************)
\* the native pair reads back as the seconds and nanoseconds of t
ReadsBack(ts, t) ==
    /\ ts.tv_sec = t.sec
    /\ ts.tv_nsec = t.nsec
    /\ 0 <= ts.tv_nsec
    /\ ts.tv_nsec < 1000000000

\* C9: ToGlfsStat of a non-nil Stat gives atime, btime, ctime and mtime as
\* pairs that read back as the source's seconds and nanoseconds; of a nil
\* pointer it gives nil.
C9_TimestampsRoundTrip ==
    converted
        => /\ stat.isNil => native.isNil
           /\ ~stat.isNil
                => /\ ~native.isNil
                   /\ ReadsBack(native.glfs_st_atime, stat.atime)
                   /\ ReadsBack(native.glfs_st_btime, stat.btime)
                   /\ ReadsBack(native.glfs_st_ctime, stat.ctime)
                   /\ ReadsBack(native.glfs_st_mtime, stat.mtime)

====
